---- MODULE Spec2Model ----
(***************************************************************************)
(* Reputation-weighted voting contract (src/contracts/voting/lib.rs) and   *)
(* its credential token collaborator (src/contracts/psp34/lib.rs).         *)
(*                                                                         *)
(* Every message is one atomic action.  A message that returns Err keeps   *)
(* whatever the handler had already written before the return, exactly as  *)
(* the handler is written; a message that panics is aborted and leaves no  *)
(* trace in storage.  Where the result depends on the build (u8 overflow   *)
(* panics or wraps) a handler has both outcomes.  The record `last` is the *)
(* observable outcome of the most recent call (who called what, and what   *)
(* came back).                                                             *)
(***************************************************************************)
EXTENDS Integers, FiniteSets, TLC

VARIABLES
    admin,            \* Voting.admin.address
    enabled_voters,   \* Voting.enabled_voters : Mapping<AccountId, ()>
    votes,            \* Voting.votes          : Mapping<AccountId, i32>
    total_votes,      \* Voting.total_votes    : i32
    next_id,          \* psp34 Contract.next_id : u8
    token_ids,        \* psp34 Data: the ids that have an owner
    balances,         \* psp34 Data: tokens owned per account
    voters,           \* Flipper.voters (src/lib.rs) : Vec<Voter>
    last              \* outcome of the most recent call

vars == <<admin, enabled_voters, votes, total_votes, next_id, token_ids,
          balances, voters, last>>

\* ------------------------------------------------------------------ bounds
\* A Flipper vote is cast only while the target's reputation is within
\* MaxReputation of 0.
MaxReputation == 3
\* Votes are cast only while total_votes is below MaxTotal.
MaxTotal == 2
\* Votes are cast only while the stored scores sum (in absolute value) to less
\* than MaxScore.
MaxScore == 2
\* Ids still free in a token contract that was used heavily before (0: none).
Headroom == 0
\* Scores and totals fed to power_of_vote in SpecPower.
PowScore == 100
PowTotal == 100
\* One large total fed to power_of_vote besides 0..PowTotal.
PowBigTotal == 1000

\* ------------------------------------------------------------- constants
\* next_id is a u8: 2^8 values.
U8Modulus == 256

Accounts == {"A", "V1", "V2"}
\* An account that never calls the voting contract.
Outsider == "X"
TypeVote == {"Like", "Unlike"}

\* ------------------------------------------------------------------ helpers
\* Mapping::get(k).unwrap_or(0) on the votes mapping.
score(m, a) == IF a \in DOMAIN m THEN m[a] ELSE 0

\* Mapping::insert.
insert(m, k, v) == [x \in (DOMAIN m) \cup {k} |-> IF x = k THEN v ELSE m[x]]

EmptyMap == [x \in {} |-> 0]

\* Rust's `/` on i32: the quotient truncated toward zero.
div(a, b) ==
    IF (a >= 0) = (b > 0)
    THEN (IF a >= 0 THEN a ELSE -a) \div (IF b > 0 THEN b ELSE -b)
    ELSE -((IF a >= 0 THEN a ELSE -a) \div (IF b > 0 THEN b ELSE -b))

\* The storage a call found: what `last.pre` holds.
Storage == [enabled_voters |-> enabled_voters, votes |-> votes,
            total_votes |-> total_votes, next_id |-> next_id,
            balances |-> balances, voters |-> voters]

NoCall == [op |-> "new", caller |-> "A", voter_id |-> "A", value |-> "None",
           result |-> "Ok", ret |-> 0, power |-> -1, mint |-> "none",
           minted_id |-> -1, ledger_read |-> FALSE, pre |-> Storage]

Call(op, caller, voter_id, value, result) ==
    [NoCall EXCEPT !.op = op, !.caller = caller, !.voter_id = voter_id,
                   !.value = value, !.result = result]

\* ------------------------------------------------------------ psp34 token
\* Contract::balance
balance(a) == balances[a]

\* The token contract's storage.
TokenState == [next_id |-> next_id, token_ids |-> token_ids, balances |-> balances]

\* Contract::mint_token(to): the outcomes of one call.  _mint_to fails with
\* TokenExists when the id is owned; otherwise the token is issued and
\* next_id += 1, which on 255 panics (a build with overflow checks) or wraps
\* to 0 (a build without).
mint_token(to) ==
    IF next_id \in token_ids
    THEN {[res |-> "Err", id |-> -1, tok |-> TokenState]}
    ELSE LET issued == [res |-> "Ok", id |-> next_id,
                        tok |-> [next_id |-> (next_id + 1) % U8Modulus,
                                 token_ids |-> token_ids \cup {next_id},
                                 balances |-> [balances EXCEPT ![to] = @ + 1]]]
         IN  IF next_id + 1 = U8Modulus
             THEN {issued, [res |-> "Panic", id |-> -1, tok |-> TokenState]}
             ELSE {issued}

\* ------------------------------------------------------------------ voting
\* power_of_vote with the negative arm tried before the total_votes == 0 test.
power_of_vote_negative_first(caller_votes, total) ==
    IF caller_votes < 0 THEN 0
    ELSE IF total = 0 THEN 1
    ELSE LET power == div(caller_votes * 100, total)
         IN  IF power <= 33 THEN 1 ELSE IF power <= 66 THEN 2 ELSE 3

\* power_of_vote with the first band one short (0..32).
power_of_vote_short_band(caller_votes, total) ==
    IF total = 0 THEN 1
    ELSE LET power == div(caller_votes * 100, total)
         IN  IF power < 0 THEN 0
             ELSE IF power < 33 THEN 1
             ELSE IF power <= 66 THEN 2
             ELSE 3

\* Voting::power_of_vote
power_of_vote(caller_votes, total) ==
    IF total = 0 THEN 1
    ELSE LET power == div(caller_votes * 100, total)
         IN  IF power < 0 THEN 0
             ELSE IF power <= 33 THEN 1
             ELSE IF power <= 66 THEN 2
             ELSE 3

\* Voting::new(admin, code_hash); the token contract it instantiates may since
\* have served `pre` calls of its public message mint_token(Outsider).
Init ==
    /\ admin = "A"
    /\ enabled_voters = {}
    /\ votes = EmptyMap
    /\ total_votes = 0
    /\ \E pre \in {0} \cup ((U8Modulus - Headroom) .. U8Modulus) :
          /\ next_id = pre % U8Modulus
          /\ token_ids = 0 .. (pre - 1)
          /\ balances = [a \in Accounts \cup {Outsider} |->
                           IF a = Outsider THEN pre ELSE 0]
    /\ voters = <<>>
    /\ last = NoCall

Token == <<next_id, token_ids, balances>>
Ledger == <<votes, total_votes>>

\* add_voter without the membership check.
add_voter_unchecked(caller, voter_id) ==
    /\ UNCHANGED <<admin, voters, Ledger, Token>>
    /\ IF caller # admin
       THEN /\ last' = Call("add_voter", caller, voter_id, "None", "NotIsAdmin")
            /\ UNCHANGED enabled_voters
       ELSE /\ enabled_voters' = enabled_voters \cup {voter_id}
            /\ last' = Call("add_voter", caller, voter_id, "None", "Ok")

\* Voting::add_voter
add_voter(caller, voter_id) ==
    /\ UNCHANGED <<admin, voters, Ledger, Token>>
    /\ IF caller # admin
       THEN /\ last' = Call("add_voter", caller, voter_id, "None", "NotIsAdmin")
            /\ UNCHANGED enabled_voters
       ELSE IF voter_id \in enabled_voters
       THEN /\ last' = Call("add_voter", caller, voter_id, "None", "VoterAlreadyExists")
            /\ UNCHANGED enabled_voters
       ELSE /\ enabled_voters' = enabled_voters \cup {voter_id}
            /\ last' = Call("add_voter", caller, voter_id, "None", "Ok")

\* remove_voter without the admin check.
remove_voter_by_anyone(caller, voter_id) ==
    /\ UNCHANGED <<admin, voters, Ledger, Token>>
    /\ IF voter_id \notin enabled_voters
       THEN /\ last' = Call("remove_voter", caller, voter_id, "None", "VoterNotExist")
            /\ UNCHANGED enabled_voters
       ELSE /\ enabled_voters' = enabled_voters \ {voter_id}
            /\ last' = Call("remove_voter", caller, voter_id, "None", "Ok")

\* remove_voter that also deletes the removed account's score.
remove_voter_purging(caller, voter_id) ==
    /\ UNCHANGED <<admin, voters, total_votes, Token>>
    /\ IF caller # admin
       THEN /\ last' = Call("remove_voter", caller, voter_id, "None", "NotIsAdmin")
            /\ UNCHANGED <<enabled_voters, votes>>
       ELSE IF voter_id \notin enabled_voters
       THEN /\ last' = Call("remove_voter", caller, voter_id, "None", "VoterNotExist")
            /\ UNCHANGED <<enabled_voters, votes>>
       ELSE /\ enabled_voters' = enabled_voters \ {voter_id}
            /\ votes' = [x \in (DOMAIN votes) \ {voter_id} |-> votes[x]]
            /\ last' = Call("remove_voter", caller, voter_id, "None", "Ok")

\* Voting::remove_voter
remove_voter(caller, voter_id) ==
    /\ UNCHANGED <<admin, voters, Ledger, Token>>
    /\ IF caller # admin
       THEN /\ last' = Call("remove_voter", caller, voter_id, "None", "NotIsAdmin")
            /\ UNCHANGED enabled_voters
       ELSE IF voter_id \notin enabled_voters
       THEN /\ last' = Call("remove_voter", caller, voter_id, "None", "VoterNotExist")
            /\ UNCHANGED enabled_voters
       ELSE /\ enabled_voters' = enabled_voters \ {voter_id}
            /\ last' = Call("remove_voter", caller, voter_id, "None", "Ok")

\* A vote that a validation check rejects: nothing read, nothing written.
rejected(err) ==
    [result |-> err, votes |-> votes, total_votes |-> total_votes, power |-> -1,
     mint |-> "none", minted_id |-> -1, ledger_read |-> FALSE, tok |-> TokenState]

\* cast with the power taken from the target's score, not the caller's.
cast_power_of_target(caller, voter_id, value, resultmint) ==
    LET voter_votes == score(votes, voter_id)
        power       == power_of_vote(voter_votes, total_votes)
        votes1      == IF value = "Like"
                       THEN insert(votes, voter_id, voter_votes + power)
                       ELSE insert(votes, voter_id, voter_votes - power)
    IN
    IF resultmint.res = "Panic"
    THEN [result |-> "Panic", votes |-> votes, total_votes |-> total_votes,
          power |-> power, mint |-> "Panic", minted_id |-> -1,
          ledger_read |-> TRUE, tok |-> TokenState]
    ELSE IF resultmint.res = "Err"
    THEN [result |-> "NftNotMint", votes |-> votes1, total_votes |-> total_votes,
          power |-> power, mint |-> "Err", minted_id |-> -1,
          ledger_read |-> TRUE, tok |-> resultmint.tok]
    ELSE [result |-> "Ok", votes |-> votes1,
          total_votes |-> IF power = 0 THEN total_votes + 1
                          ELSE total_votes + power,
          power |-> power, mint |-> "Ok", minted_id |-> resultmint.id,
          ledger_read |-> TRUE, tok |-> resultmint.tok]

\* What a variant of cast returns: votes1 written before the mint, the total
\* left on a failed mint and the total left on success.
cast_outcome(power, votes1, total_on_err, total_on_ok, resultmint) ==
    IF resultmint.res = "Panic"
    THEN [result |-> "Panic", votes |-> votes, total_votes |-> total_votes,
          power |-> power, mint |-> "Panic", minted_id |-> -1,
          ledger_read |-> TRUE, tok |-> TokenState]
    ELSE IF resultmint.res = "Err"
    THEN [result |-> "NftNotMint", votes |-> votes1, total_votes |-> total_on_err,
          power |-> power, mint |-> "Err", minted_id |-> -1,
          ledger_read |-> TRUE, tok |-> resultmint.tok]
    ELSE [result |-> "Ok", votes |-> votes1, total_votes |-> total_on_ok,
          power |-> power, mint |-> "Ok", minted_id |-> resultmint.id,
          ledger_read |-> TRUE, tok |-> resultmint.tok]

\* cast with the total_votes bookkeeping done before the mint.
cast_total_before_mint(caller, voter_id, value, resultmint) ==
    LET power  == power_of_vote(score(votes, caller), total_votes)
        delta  == IF value = "Like" THEN power ELSE -power
        votes1 == insert(votes, voter_id, score(votes, voter_id) + delta)
        total1 == IF power = 0 THEN total_votes + 1 ELSE total_votes + power
    IN  cast_outcome(power, votes1, total1, total1, resultmint)

\* cast that adds the power to total_votes also when the power is 0.
cast_zero_power_unbilled(caller, voter_id, value, resultmint) ==
    LET power  == power_of_vote(score(votes, caller), total_votes)
        delta  == IF value = "Like" THEN power ELSE -power
        votes1 == insert(votes, voter_id, score(votes, voter_id) + delta)
    IN  cast_outcome(power, votes1, total_votes, total_votes + power, resultmint)

\* cast that moves total_votes by the signed delta (down on Unlike).
cast_signed_total(caller, voter_id, value, resultmint) ==
    LET power  == power_of_vote(score(votes, caller), total_votes)
        delta  == IF value = "Like" THEN power ELSE -power
        votes1 == insert(votes, voter_id, score(votes, voter_id) + delta)
    IN  cast_outcome(power, votes1, total_votes,
                     IF power = 0 THEN total_votes + 1 ELSE total_votes + delta,
                     resultmint)

\* cast that counts calls: total_votes grows by 1 whatever the power.
cast_counts_calls(caller, voter_id, value, resultmint) ==
    LET power  == power_of_vote(score(votes, caller), total_votes)
        delta  == IF value = "Like" THEN power ELSE -power
        votes1 == insert(votes, voter_id, score(votes, voter_id) + delta)
    IN  cast_outcome(power, votes1, total_votes, total_votes + 1, resultmint)

\* cast that writes the new score under the caller's key.
cast_writes_caller(caller, voter_id, value, resultmint) ==
    LET power  == power_of_vote(score(votes, caller), total_votes)
        delta  == IF value = "Like" THEN power ELSE -power
        votes1 == insert(votes, caller, score(votes, voter_id) + delta)
    IN  cast_outcome(power, votes1, total_votes,
                     IF power = 0 THEN total_votes + 1 ELSE total_votes + power,
                     resultmint)

\* Voting::vote from the ledger read on (lines 135-160), for one outcome
\* resultmint of the nested mint_token call.
cast(caller, voter_id, value, resultmint) ==
    LET caller_votes == score(votes, caller)
        power        == power_of_vote(caller_votes, total_votes)
        voter_votes  == score(votes, voter_id)
        votes1       == IF value = "Like"
                        THEN insert(votes, voter_id, voter_votes + power)
                        ELSE insert(votes, voter_id, voter_votes - power)
    IN
    IF resultmint.res = "Panic"
    THEN [result |-> "Panic", votes |-> votes, total_votes |-> total_votes,
          power |-> power, mint |-> "Panic", minted_id |-> -1,
          ledger_read |-> TRUE, tok |-> TokenState]
    ELSE IF resultmint.res = "Err"
    THEN [result |-> "NftNotMint", votes |-> votes1, total_votes |-> total_votes,
          power |-> power, mint |-> "Err", minted_id |-> -1,
          ledger_read |-> TRUE, tok |-> resultmint.tok]
    ELSE [result |-> "Ok", votes |-> votes1,
          total_votes |-> IF power = 0 THEN total_votes + 1
                          ELSE total_votes + power,
          power |-> power, mint |-> "Ok", minted_id |-> resultmint.id,
          ledger_read |-> TRUE, tok |-> resultmint.tok]

\* vote without the check that the caller is registered.
vote_any_caller(caller, voter_id, value) ==
    IF voter_id \notin enabled_voters THEN {rejected("VoterNotExist")}
    ELSE IF caller = voter_id THEN {rejected("NotVoteItSelf")}
    ELSE {cast(caller, voter_id, value, m) : m \in mint_token(caller)}

\* vote without the check that the caller is not the target.
vote_on_self(caller, voter_id, value) ==
    IF caller \notin enabled_voters THEN {rejected("NotIsVoter")}
    ELSE IF voter_id \notin enabled_voters THEN {rejected("VoterNotExist")}
    ELSE {cast(caller, voter_id, value, m) : m \in mint_token(caller)}

\* vote that mints the credential to the target.
vote_mint_to_target(caller, voter_id, value) ==
    IF caller \notin enabled_voters THEN {rejected("NotIsVoter")}
    ELSE IF voter_id \notin enabled_voters THEN {rejected("VoterNotExist")}
    ELSE IF caller = voter_id THEN {rejected("NotVoteItSelf")}
    ELSE {cast(caller, voter_id, value, m) : m \in mint_token(voter_id)}

\* Voting::vote: the outcomes of one call (the storage it leaves and what it
\* returns).  A panic inside the nested mint_token call aborts the call.
vote(caller, voter_id, value) ==
    IF caller \notin enabled_voters THEN {rejected("NotIsVoter")}
    ELSE IF voter_id \notin enabled_voters THEN {rejected("VoterNotExist")}
    ELSE IF caller = voter_id THEN {rejected("NotVoteItSelf")}
    ELSE {cast(caller, voter_id, value, m) : m \in mint_token(caller)}

Abs(x) == IF x < 0 THEN -x ELSE x

RECURSIVE SumAbs(_, _)
SumAbs(m, S) ==
    IF S = {} THEN 0
    ELSE LET a == CHOOSE x \in S : TRUE IN Abs(m[a]) + SumAbs(m, S \ {a})

\* The bound on the counters: votes are cast while the ledger is small.
CanVote ==
    /\ total_votes < MaxTotal
    /\ SumAbs(votes, DOMAIN votes) < MaxScore

VoteCall(op, caller, voter_id, value, r) ==
    [op |-> op, caller |-> caller, voter_id |-> voter_id, value |-> value,
     result |-> r.result, ret |-> 0, power |-> r.power, mint |-> r.mint,
     minted_id |-> r.minted_id, ledger_read |-> r.ledger_read, pre |-> Storage]

\* The message Voting::vote
Vote(caller, voter_id, value) ==
    /\ CanVote
    /\ \E r \in vote(caller, voter_id, value) :
          /\ votes' = r.votes
          /\ total_votes' = r.total_votes
          /\ next_id' = r.tok.next_id
          /\ token_ids' = r.tok.token_ids
          /\ balances' = r.tok.balances
          /\ last' = VoteCall("vote", caller, voter_id, value, r)
    /\ UNCHANGED <<admin, voters, enabled_voters>>

\* Voting::get_reputation as the handler runs it.
get_reputation(caller, voter_id) ==
    IF caller # voter_id THEN [result |-> "MustBeItSelf", ret |-> 0]
    ELSE IF voter_id \notin enabled_voters THEN [result |-> "VoterNotExist", ret |-> 0]
    ELSE [result |-> "Ok", ret |-> score(votes, voter_id)]

\* get_balance with the registry check first and the admin let through.
get_balance_admin_reads(caller, voter_id) ==
    IF voter_id \notin enabled_voters THEN [result |-> "VoterNotExist", ret |-> 0]
    ELSE IF caller # voter_id /\ caller # admin
    THEN [result |-> "MustBeItSelf", ret |-> 0]
    ELSE [result |-> "Ok", ret |-> balance(voter_id)]

\* Voting::get_balance as the handler runs it.
get_balance(caller, voter_id) ==
    IF caller # voter_id THEN [result |-> "MustBeItSelf", ret |-> 0]
    ELSE IF voter_id \notin enabled_voters THEN [result |-> "VoterNotExist", ret |-> 0]
    ELSE [result |-> "Ok", ret |-> balance(voter_id)]

\* The message Voting::get_reputation
GetReputation(caller, voter_id) ==
    /\ LET r == get_reputation(caller, voter_id) IN
       last' = [Call("get_reputation", caller, voter_id, "None", r.result)
                  EXCEPT !.ret = r.ret, !.ledger_read = (r.result = "Ok")]
    /\ UNCHANGED <<admin, voters, enabled_voters, Ledger, Token>>

\* The message Voting::get_balance
GetBalance(caller, voter_id) ==
    /\ LET r == get_balance(caller, voter_id) IN
       last' = [Call("get_balance", caller, voter_id, "None", r.result)
                  EXCEPT !.ret = r.ret]
    /\ UNCHANGED <<admin, voters, enabled_voters, Ledger, Token>>

Next ==
    \/ \E caller \in Accounts, voter_id \in Accounts : add_voter(caller, voter_id)
    \/ \E caller \in Accounts, voter_id \in Accounts : remove_voter(caller, voter_id)
    \/ \E caller \in Accounts, voter_id \in Accounts, value \in TypeVote :
          Vote(caller, voter_id, value)
    \/ \E caller \in Accounts, voter_id \in Accounts : GetReputation(caller, voter_id)
    \/ \E caller \in Accounts, voter_id \in Accounts : GetBalance(caller, voter_id)

Spec == Init /\ [][Next]_vars

\* ------------------------------------------------- power_of_vote alone
\* A ledger in which V1 holds score s of a total t.
InitPower ==
    /\ admin = "A"
    /\ enabled_voters = {"V1", "V2"}
    /\ \E s \in (-PowScore) .. PowScore : votes = ("V1" :> s)
    /\ total_votes \in (0 .. PowTotal) \cup {PowBigTotal}
    /\ next_id = 0
    /\ token_ids = {}
    /\ balances = [a \in Accounts \cup {Outsider} |-> 0]
    /\ voters = <<>>
    /\ last = NoCall

\* One evaluation of self.power_of_vote(caller_votes), as vote makes it at
\* lines 135-137.
PowerOfVote(caller) ==
    /\ last' = [Call("power_of_vote", caller, caller, "None", "Ok")
                  EXCEPT !.power = power_of_vote(score(votes, caller), total_votes),
                         !.ledger_read = TRUE]
    /\ UNCHANGED <<admin, voters, enabled_voters, Ledger, Token>>

NextPower == \E caller \in Accounts : PowerOfVote(caller)

SpecPower == InitPower /\ [][NextPower]_vars

\* ------------------------------------------- the Votingtraits entry points
\* Votingtraits::vote: self.vote(voter_id, value).unwrap(); Ok(()).  The
\* unwrap of an Err panics, and the panic discards the call.
TraitVote(caller, voter_id, value) ==
    /\ CanVote
    /\ \E r \in vote(caller, voter_id, value) :
          IF r.result = "Ok"
          THEN /\ votes' = r.votes
               /\ total_votes' = r.total_votes
               /\ next_id' = r.tok.next_id
               /\ token_ids' = r.tok.token_ids
               /\ balances' = r.tok.balances
               /\ last' = VoteCall("Votingtraits::vote", caller, voter_id, value, r)
          ELSE /\ last' = [VoteCall("Votingtraits::vote", caller, voter_id, value, r)
                             EXCEPT !.result = "Panic"]
               /\ UNCHANGED <<Ledger, Token>>
    /\ UNCHANGED <<admin, voters, enabled_voters>>

\* Votingtraits::get_reputation: Ok(self.get_reputation(voter_id).unwrap_or(0))
TraitGetReputation(caller, voter_id) ==
    /\ LET r == get_reputation(caller, voter_id) IN
       last' = [Call("Votingtraits::get_reputation", caller, voter_id, "None", "Ok")
                  EXCEPT !.ret = IF r.result = "Ok" THEN r.ret ELSE 0,
                         !.ledger_read = (r.result = "Ok")]
    /\ UNCHANGED <<admin, voters, enabled_voters, Ledger, Token>>

NextTrait ==
    \/ Next
    \/ \E caller \in Accounts, voter_id \in Accounts, value \in TypeVote :
          TraitVote(caller, voter_id, value)
    \/ \E caller \in Accounts, voter_id \in Accounts :
          TraitGetReputation(caller, voter_id)

SpecTrait == Init /\ [][NextTrait]_vars

\* --------------------------------------------- the draft contract, Flipper
Voted == <<enabled_voters, Ledger, Token>>

\* A fresh Flipper::new(admin); the Voting storage is not part of it.
InitFlipper ==
    /\ admin = "A"
    /\ voters = <<>>
    /\ enabled_voters = {}
    /\ votes = EmptyMap
    /\ total_votes = 0
    /\ next_id = 0
    /\ token_ids = {}
    /\ balances = [a \in Accounts \cup {Outsider} |-> 0]
    /\ last = NoCall

\* Flipper::get_index: the first position holding voter_id, 0 for None.
get_index(voter_id) ==
    LET hits == {i \in DOMAIN voters : voters[i].voter_id = voter_id}
    IN  IF hits = {} THEN 0 ELSE CHOOSE i \in hits : \A j \in hits : i <= j

\* Vec::push and Vec::remove
push(vec, e) == [i \in 1 .. (Cardinality(DOMAIN vec) + 1) |->
                   IF i \in DOMAIN vec THEN vec[i] ELSE e]
remove(vec, index) == [i \in 1 .. (Cardinality(DOMAIN vec) - 1) |->
                         IF i < index THEN vec[i] ELSE vec[i + 1]]

\* Flipper add_voter that lets the admin in.
flipper_add_voter_unguarded(caller, voter_id) ==
    /\ UNCHANGED <<admin, Voted>>
    /\ IF admin # caller
       THEN /\ last' = Call("Flipper::add_voter", caller, voter_id, "None", "WrongRole")
            /\ UNCHANGED voters
       ELSE IF get_index(voter_id) # 0
       THEN /\ last' = Call("Flipper::add_voter", caller, voter_id, "None",
                            "VoterAlreadyExists")
            /\ UNCHANGED voters
       ELSE /\ voters' = push(voters, [voter_id |-> voter_id, reputation |-> 0])
            /\ last' = Call("Flipper::add_voter", caller, voter_id, "None", "Ok")

\* Flipper::add_voter
flipper_add_voter(caller, voter_id) ==
    /\ UNCHANGED <<admin, Voted>>
    /\ IF admin # caller
       THEN /\ last' = Call("Flipper::add_voter", caller, voter_id, "None", "WrongRole")
            /\ UNCHANGED voters
       ELSE IF admin = voter_id
       THEN /\ last' = Call("Flipper::add_voter", caller, voter_id, "None",
                            "AdminCannotBeAVoter")
            /\ UNCHANGED voters
       ELSE IF get_index(voter_id) # 0
       THEN /\ last' = Call("Flipper::add_voter", caller, voter_id, "None",
                            "VoterAlreadyExists")
            /\ UNCHANGED voters
       ELSE /\ voters' = push(voters, [voter_id |-> voter_id, reputation |-> 0])
            /\ last' = Call("Flipper::add_voter", caller, voter_id, "None", "Ok")

\* Flipper::remove_voter
flipper_remove_voter(caller, voter_id) ==
    /\ UNCHANGED <<admin, Voted>>
    /\ IF admin # caller
       THEN /\ last' = Call("Flipper::remove_voter", caller, voter_id, "None",
                            "WrongRole")
            /\ UNCHANGED voters
       ELSE IF admin = voter_id
       THEN /\ last' = Call("Flipper::remove_voter", caller, voter_id, "None",
                            "AdminCannotBeAVoter")
            /\ UNCHANGED voters
       ELSE IF get_index(voter_id) = 0
       THEN /\ last' = Call("Flipper::remove_voter", caller, voter_id, "None",
                            "VoterNotExist")
            /\ UNCHANGED voters
       ELSE /\ voters' = remove(voters, get_index(voter_id))
            /\ last' = Call("Flipper::remove_voter", caller, voter_id, "None", "Ok")

\* The error Flipper::vote returns from its checks, "Ok" when all pass.
flipper_vote_check(delivers_id, voting) ==
    IF admin = delivers_id THEN "AdminCannotDeliverVote"
    ELSE IF get_index(delivers_id) = 0 THEN "NotIsVoter"
    ELSE IF admin = voting THEN "AdminCannotReciveVote"
    ELSE IF delivers_id = voting THEN "NotVoteItself"
    ELSE IF get_index(voting) = 0 THEN "VoterNotExist"
    ELSE "Ok"

\* Flipper::vote; the i8 reputation is kept within MaxReputation of 0.
flipper_vote(delivers_id, voting, value) ==
    /\ UNCHANGED <<admin, Voted>>
    /\ LET res   == flipper_vote_check(delivers_id, voting)
           index == get_index(voting)
       IN  /\ last' = Call("Flipper::vote", delivers_id, voting, value, res)
           /\ IF res # "Ok"
              THEN UNCHANGED voters
              ELSE /\ Abs(voters[index].reputation) < MaxReputation
                   /\ voters' = [voters EXCEPT ![index].reputation =
                                    IF value = "Like" THEN @ + 1 ELSE @ - 1]

\* Flipper::get_reputation
flipper_get_reputation(caller, voter_id) ==
    /\ UNCHANGED <<admin, voters, Voted>>
    /\ LET index == get_index(voter_id) IN
       last' = IF index = 0
               THEN Call("Flipper::get_reputation", caller, voter_id, "None",
                         "VoterNotExist")
               ELSE [Call("Flipper::get_reputation", caller, voter_id, "None", "Ok")
                       EXCEPT !.ret = voters[index].reputation]

NextFlipper ==
    \/ \E caller \in Accounts, voter_id \in Accounts :
          flipper_add_voter(caller, voter_id)
    \/ \E caller \in Accounts, voter_id \in Accounts :
          flipper_remove_voter(caller, voter_id)
    \/ \E caller \in Accounts, voting \in Accounts, value \in TypeVote :
          flipper_vote(caller, voting, value)
    \/ \E caller \in Accounts, voter_id \in Accounts :
          flipper_get_reputation(caller, voter_id)

SpecFlipper == InitFlipper /\ [][NextFlipper]_vars

\* ------------------------------------------------------------------ claims
ValidationErrors == {"NotIsVoter", "VoterNotExist", "NotVoteItSelf"}

LedgerUntouched ==
    /\ votes = last.pre.votes
    /\ total_votes = last.pre.total_votes

TokenUntouched ==
    /\ balances = last.pre.balances
    /\ next_id = last.pre.next_id

\* C1: when mint_token reports failure during vote, vote returns NftNotMint
\* and the call has had no effect: every score and total_votes are what they
\* were before the call.
C1_MintFailureHasNoEffect ==
    (last.op = "vote" /\ last.mint = "Err") =>
        /\ last.result = "NftNotMint"
        /\ LedgerUntouched

\* C2: a vote by a caller outside the registry fails with NotIsVoter; a vote
\* whose target is outside the registry or is the caller is rejected too; and
\* a vote rejected by validation leaves every score, total_votes and every
\* token balance unchanged and invokes no mint.
C2_RejectedVoteHasNoEffect ==
    last.op = "vote" =>
        /\ last.caller \notin last.pre.enabled_voters => last.result = "NotIsVoter"
        /\ last.voter_id \notin last.pre.enabled_voters =>
               last.result \in {"NotIsVoter", "VoterNotExist"}
        /\ last.caller = last.voter_id =>
               last.result \in {"NotIsVoter", "VoterNotExist", "NotVoteItSelf"}
        /\ last.result \in ValidationErrors =>
               /\ LedgerUntouched
               /\ TokenUntouched
               /\ last.mint = "none"

C2_Witness ==
    /\ last.op = "vote"
    /\ last.caller \notin last.pre.enabled_voters
    /\ last.voter_id \in last.pre.enabled_voters
    /\ last.pre.total_votes > 0
    /\ last.result = "NotIsVoter"

\* C3: add_voter and remove_voter by anyone but the admin fail with NotIsAdmin
\* and leave the registry unchanged; the registry differs from what a call
\* found only when that call was add_voter or remove_voter by the admin.
C3_OnlyAdminChangesRegistry ==
    /\ (last.op \in {"add_voter", "remove_voter"} /\ last.caller # admin) =>
           /\ last.result = "NotIsAdmin"
           /\ enabled_voters = last.pre.enabled_voters
    /\ enabled_voters # last.pre.enabled_voters =>
           /\ last.op \in {"add_voter", "remove_voter"}
           /\ last.caller = admin
           /\ last.result = "Ok"

C3_Witness ==
    /\ last.op = "remove_voter"
    /\ last.caller # admin
    /\ last.voter_id \in enabled_voters
    /\ last.result = "NotIsAdmin"

\* C4: add_voter(b) by the admin while b is registered (added, not removed
\* since) fails with VoterAlreadyExists and leaves the registry, the scores
\* and total_votes unchanged.
C4_SecondAddFails ==
    (last.op = "add_voter" /\ last.caller = admin
        /\ last.voter_id \in last.pre.enabled_voters) =>
        /\ last.result = "VoterAlreadyExists"
        /\ enabled_voters = last.pre.enabled_voters
        /\ LedgerUntouched

C4_Witness ==
    /\ last.op = "add_voter"
    /\ last.caller = admin
    /\ last.voter_id \in last.pre.enabled_voters
    /\ last.result = "VoterAlreadyExists"

\* C5: get_reputation(subject) and get_balance(subject) called by anyone but
\* subject fail with MustBeItSelf, the admin included and whether or not
\* subject is registered; they return a value only when the caller is the
\* subject and the subject is registered, and then the stored score (0 when
\* absent) or the token balance.
C5_ReadsAreSelfOnly ==
    last.op \in {"get_reputation", "get_balance"} =>
        /\ last.caller # last.voter_id => last.result = "MustBeItSelf"
        /\ last.result = "Ok" =>
               /\ last.caller = last.voter_id
               /\ last.voter_id \in enabled_voters
               /\ last.op = "get_reputation" => last.ret = score(votes, last.voter_id)
               /\ last.op = "get_balance" => last.ret = balances[last.voter_id]

C5_Witness ==
    /\ last.op = "get_balance"
    /\ last.caller = admin
    /\ last.voter_id # admin
    /\ last.voter_id \in enabled_voters
    /\ balances[last.voter_id] > 0
    /\ last.result = "MustBeItSelf"

\* C6 as stated: every vote with caller == target fails with NotVoteItSelf,
\* registered caller or not, before any score is read.
C6_SelfVoteAlwaysNotVoteItSelf ==
    (last.op = "vote" /\ last.caller = last.voter_id) =>
        /\ last.result = "NotVoteItSelf"
        /\ ~last.ledger_read

\* C6 amended: every vote with caller == target fails before any score is
\* read and changes nothing, with NotVoteItSelf when the caller is registered
\* and with NotIsVoter when it is not.
C6_SelfVoteRejected ==
    (last.op = "vote" /\ last.caller = last.voter_id) =>
        /\ last.result = IF last.caller \in last.pre.enabled_voters
                         THEN "NotVoteItSelf" ELSE "NotIsVoter"
        /\ ~last.ledger_read
        /\ LedgerUntouched

C6_Witness ==
    /\ last.op = "vote"
    /\ last.caller = last.voter_id
    /\ last.caller \in last.pre.enabled_voters
    /\ last.result = "NotVoteItSelf"

\* C7: in every reachable state the admin is not in the voter registry.
C7_AdminNeverVoter == admin \notin enabled_voters

\* The first step of C8's scenario: V1 casts the first vote, a Like on V2.
C8_FirstVote ==
    /\ last.op = "vote" /\ last.result = "Ok"
    /\ last.caller = "V1" /\ last.voter_id = "V2" /\ last.value = "Like"
    /\ last.pre.votes = EmptyMap
    /\ last.pre.total_votes = 0

\* The second step: V2 votes Like on V1 in the state the first step left.
C8_SecondVote ==
    /\ last.op = "vote" /\ last.result = "Ok"
    /\ last.caller = "V2" /\ last.voter_id = "V1" /\ last.value = "Like"
    /\ last.pre.votes = ("V2" :> 1)
    /\ last.pre.total_votes = 1
    /\ last.pre.next_id = 1
    /\ last.pre.balances["V1"] = 1

\* C8 as stated: after V1 votes Like on V2, V2's score is 1 and total_votes
\* is 1; after V2 then votes Like on V1 the power used is 1, V1's score is 1
\* and total_votes is 2.
C8_ScenarioAsStated ==
    /\ C8_FirstVote => (score(votes, "V2") = 1 /\ total_votes = 1)
    /\ C8_SecondVote =>
           (last.power = 1 /\ score(votes, "V1") = 1 /\ total_votes = 2)

\* C8 amended: after V1 votes Like on V2, V2's score is 1 and total_votes is
\* 1; after V2 then votes Like on V1 the power used is 3 (V2's score 1 of a
\* total of 1), V1's score is 3 and total_votes is 4.
C8_Scenario ==
    /\ C8_FirstVote => (votes = ("V2" :> 1) /\ total_votes = 1)
    /\ C8_SecondVote =>
           /\ last.power = 3
           /\ votes = ("V1" :> 3) @@ ("V2" :> 1)
           /\ total_votes = 4

C8_Witness == C8_SecondVote

\* C9: while total_votes is 0 the power computed for a vote is 1 whatever
\* the caller's stored score, and the first successful vote moves the
\* target's score by exactly +1 (Like) or -1 (Unlike).
C9_FirstVotePowerOne ==
    (last.op = "vote" /\ last.ledger_read /\ last.pre.total_votes = 0) =>
        /\ last.power = 1
        /\ last.result = "Ok" =>
               /\ score(votes, last.voter_id) =
                      score(last.pre.votes, last.voter_id)
                        + (IF last.value = "Like" THEN 1 ELSE -1)
               /\ total_votes = 1

\* A caller with a negative score votes while total_votes is 0.
C9_Witness ==
    /\ last.op = "vote"
    /\ last.pre.total_votes = 0
    /\ score(last.pre.votes, last.caller) < 0
    /\ last.power = 1

\* C10: for s >= 0 and t > 0, power_of_vote is 1, 2 or 3 by the band of
\* floor(s*100/t) (0..33, 34..66, 67 and up), 2 for s = 50 and 3 for s = 80
\* of t = 100, and evaluating it changes no storage.
C10_PowerTiers ==
    (last.op = "power_of_vote" /\ total_votes > 0
        /\ score(votes, last.caller) >= 0) =>
        LET s == score(votes, last.caller)
            t == total_votes
            ratio == (s * 100) \div t
        IN  /\ last.power = (IF ratio <= 33 THEN 1 ELSE IF ratio <= 66 THEN 2 ELSE 3)
            /\ (t = 100 /\ s = 50) => last.power = 2
            /\ (t = 100 /\ s = 80) => last.power = 3
            /\ LedgerUntouched
            /\ TokenUntouched
            /\ enabled_voters = last.pre.enabled_voters

C10_Witness ==
    /\ last.op = "power_of_vote"
    /\ total_votes = 100
    /\ score(votes, last.caller) = 50
    /\ last.power = 2

\* C11: for every score s < 0 and total t > 0, power_of_vote returns 0, also
\* when |s|*100 < t (s = -1, t = 1000).
C11_NegativeScorePowerZero ==
    (last.op = "power_of_vote" /\ total_votes > 0
        /\ score(votes, last.caller) < 0) =>
        last.power = 0

\* The signed change a vote of power p makes to its target's score.
Delta(value, p) == IF value = "Like" THEN p ELSE -p

\* The amount a vote of power p adds to total_votes.
Billed(p) == IF p = 0 THEN 1 ELSE p

\* C12: a successful vote mints exactly one credential, to the caller: the
\* caller's balance grows by 1 and every other balance is unchanged; a vote
\* rejected by validation mints nothing.
C12_VoteMintsOneToCaller ==
    last.op = "vote" =>
        /\ last.result = "Ok" =>
               /\ last.mint = "Ok"
               /\ balances = [last.pre.balances EXCEPT ![last.caller] = @ + 1]
        /\ last.result \in ValidationErrors =>
               /\ last.mint = "none"
               /\ balances = last.pre.balances

\* A caller that already holds a credential votes again.
C12_Witness ==
    /\ last.op = "vote"
    /\ last.result = "Ok"
    /\ last.pre.balances[last.caller] = 1
    /\ balances[last.caller] = 2
    /\ balances[last.voter_id] = 0

\* C13: every call of mint_token issues one credential whose id is greater
\* than every id issued before; no call fails because the counter ran out.
C13_MintNeverRunsOut ==
    last.mint # "none" =>
        /\ last.mint = "Ok"
        /\ last.minted_id = last.pre.next_id
        /\ last.minted_id \in token_ids
        /\ \A i \in token_ids \ {last.minted_id} : i < last.minted_id

\* C14: remove_voter leaves every stored score as it was, and so does
\* add_voter; a score changes only while its account is registered; so a
\* removed account that is added again has the score it had when removed.
\* get_reputation(v) by v fails while v is not registered and otherwise
\* returns v's stored score.
C14_RemoveKeepsScore ==
    /\ last.op \in {"remove_voter", "add_voter"} => votes = last.pre.votes
    /\ \A v \in Accounts :
           score(votes, v) # score(last.pre.votes, v) =>
               (v \in last.pre.enabled_voters /\ v \in enabled_voters)
    /\ (last.op = "get_reputation" /\ last.caller = last.voter_id) =>
           IF last.voter_id \in enabled_voters
           THEN last.result = "Ok" /\ last.ret = score(votes, last.voter_id)
           ELSE last.result = "VoterNotExist"

\* An account with a score left from before its removal is added again.
C14_Witness ==
    /\ last.op = "add_voter"
    /\ last.result = "Ok"
    /\ score(votes, last.voter_id) # 0
    /\ last.voter_id \notin last.pre.enabled_voters

C18_VoteAppliesPower ==
    (last.op = "vote" /\ last.result = "Ok") =>
        /\ last.power \in 0 .. 3
        /\ votes = insert(last.pre.votes, last.voter_id,
                          score(last.pre.votes, last.voter_id)
                            + Delta(last.value, last.power))
        /\ total_votes = last.pre.total_votes + Billed(last.power)

\* A registered caller with a negative score votes with power 0.
C18_Witness ==
    /\ last.op = "vote"
    /\ last.result = "Ok"
    /\ last.power = 0
    /\ score(votes, last.voter_id) = score(last.pre.votes, last.voter_id)
    /\ total_votes = last.pre.total_votes + 1

\* C19: total_votes starts at 0, is never negative and never decreases: a successful vote
\* adds 1, 2 or 3 and leaves it positive, every other call leaves it as found.
C19_TotalNeverDecreases ==
    /\ last.op = "new" => total_votes = 0
    /\ total_votes >= 0
    /\ total_votes >= last.pre.total_votes
    /\ IF last.op = "vote" /\ last.result = "Ok"
       THEN /\ total_votes - last.pre.total_votes \in 1 .. 3
            /\ total_votes > 0
       ELSE total_votes = last.pre.total_votes

C19_Witness ==
    /\ last.op = "vote"
    /\ last.result = "Ok"
    /\ last.value = "Unlike"
    /\ total_votes = last.pre.total_votes + 3

\* C20: add_voter, remove_voter, get_reputation and get_balance leave every
\* score and total_votes unchanged; the ledger changes only in a vote that
\* passed the three validation checks, and a vote changes no entry but its
\* target's.
C20_LedgerChangesOnlyInVote ==
    /\ last.op \in {"add_voter", "remove_voter", "get_reputation", "get_balance"}
           => LedgerUntouched
    /\ ~LedgerUntouched =>
           /\ last.op = "vote"
           /\ last.caller \in last.pre.enabled_voters
           /\ last.voter_id \in last.pre.enabled_voters
           /\ last.caller # last.voter_id
    /\ last.op = "vote" =>
           \A a \in Accounts \ {last.voter_id} :
               /\ (a \in DOMAIN votes) = (a \in DOMAIN last.pre.votes)
               /\ score(votes, a) = score(last.pre.votes, a)

\* A caller with a score of its own changes its target's score only.
C20_Witness ==
    /\ last.op = "vote"
    /\ last.result = "Ok"
    /\ score(votes, last.caller) # 0
    /\ score(votes, last.voter_id) # score(last.pre.votes, last.voter_id)

\* The values a message hands back to its caller.
Returned == {"Ok", "NotIsAdmin", "VoterAlreadyExists", "VoterNotExist",
             "NotIsVoter", "NotVoteItSelf", "MustBeItSelf", "NftNotMint"}

\* C15: every public message, the Votingtraits entry points included, either
\* succeeds or returns an Error value; none panics.
C15_EveryMessageReturns ==
    last.result \in Returned

\* C16: in the draft contract the admin is never in the voters list;
\* add_voter(admin) and remove_voter(admin) by the admin fail with
\* AdminCannotBeAVoter, a vote by the admin with AdminCannotDeliverVote and a
\* vote by a registered voter for the admin with AdminCannotReciveVote, each
\* leaving the voters list and the reputations as found.
C16_AdminNeverAVoter ==
    /\ \A i \in DOMAIN voters : voters[i].voter_id # admin
    /\ (last.op \in {"Flipper::add_voter", "Flipper::remove_voter"}
          /\ last.caller = admin /\ last.voter_id = admin) =>
           (last.result = "AdminCannotBeAVoter" /\ voters = last.pre.voters)
    /\ (last.op = "Flipper::vote" /\ last.caller = admin) =>
           (last.result = "AdminCannotDeliverVote" /\ voters = last.pre.voters)
    /\ (last.op = "Flipper::vote" /\ last.voter_id = admin
          /\ \E i \in DOMAIN last.pre.voters :
                last.pre.voters[i].voter_id = last.caller) =>
           (last.result = "AdminCannotReciveVote" /\ voters = last.pre.voters)

\* A voter with a reputation has voted for the admin.
C16_Witness ==
    /\ last.op = "Flipper::vote"
    /\ last.result = "AdminCannotReciveVote"
    /\ \E i \in DOMAIN voters : voters[i].reputation # 0
    /\ Cardinality(DOMAIN voters) = 2

\* The stored entry of account a differs between ledgers m and n.
EntryDiffers(m, n, a) ==
    \/ (a \in DOMAIN m) # (a \in DOMAIN n)
    \/ score(m, a) # score(n, a)

\* C21: the ledger is empty after new, and an entry is created or changed
\* only for the target of a vote that returned Ok; a vote that returns an
\* error, the mint-failure error included, creates and changes no entry.
C21_EntriesOnlyFromOkVotes ==
    /\ last.op = "new" => DOMAIN votes = {}
    /\ \A a \in Accounts :
           EntryDiffers(votes, last.pre.votes, a) =>
               /\ last.op = "vote"
               /\ last.result = "Ok"
               /\ last.voter_id = a

\* C22: Votingtraits::get_reputation returns what the inherent
\* get_reputation returns for the same caller and subject, errors included.
C22_TraitReputationIsInherent ==
    last.op = "Votingtraits::get_reputation" =>
        /\ last.result = get_reputation(last.caller, last.voter_id).result
        /\ last.ret = get_reputation(last.caller, last.voter_id).ret

\* No id has been issued twice round the counter: the ids that exist are
\* those below next_id, so every mint so far has succeeded.
CounterNotWrapped == token_ids = 0 .. (next_id - 1)

\* The scores of ledger m weigh at most t in all, each lies within -t .. t and
\* its tiering ratio within -100 .. 100.
WithinTotal(m, t) ==
    /\ SumAbs(m, DOMAIN m) <= t
    /\ \A a \in DOMAIN m :
           /\ -t <= m[a] /\ m[a] <= t
           /\ t > 0 => div(m[a] * 100, t) \in (-100) .. 100

\* C23: while every mint has succeeded, the absolute values of the stored
\* scores sum to at most total_votes, so every score s lies in
\* -total_votes .. total_votes and, when total_votes > 0, its ratio
\* s*100/total_votes lies in -100 .. 100; and a call whose mint does not fail
\* keeps this.
C23_ScoresWithinTotal ==
    /\ CounterNotWrapped => WithinTotal(votes, total_votes)
    /\ (last.mint # "Err" /\ WithinTotal(last.pre.votes, last.pre.total_votes))
           => WithinTotal(votes, total_votes)

\* An Unlike of power 3 has brought the scores' weight to total_votes = 4.
C23_Witness ==
    /\ CounterNotWrapped
    /\ last.op = "vote"
    /\ last.mint = "Ok"
    /\ last.power = 3
    /\ total_votes = 4
    /\ SumAbs(votes, DOMAIN votes) = total_votes
    /\ \E a \in DOMAIN votes : votes[a] = -3

====
